---- MODULE Spec2Model ----
(***************************************************************************)
(* The MetaAPI gateway of src/server.js: seven POST routes, each an async  *)
(* express handler that validates the JSON body, constructs a provider     *)
(* client, awaits a chain of provider calls and sends one JSON response.   *)
(*                                                                         *)
(* A handler runs without interruption between two awaits (node's single   *)
(* thread), so one action runs a handler from its entry, or from the       *)
(* settlement of the provider call it awaits, up to its next await or its  *)
(* return.  The provider (the metaapi.cloud-sdk objects) is the            *)
(* environment: every call it is given returns a value, throws an error    *)
(* or never settles.                                                       *)
(***************************************************************************)
EXTENDS Integers, Sequences, FiniteSets

VARIABLES
    pc,         \* pc[r]: "idle" (not received), "running" (suspended at an await), "done" (handler returned)
    req,        \* req[r]: [route, body] of request r
    client,     \* client[r]: the object `new MetaApi(token)` made for r, 0 before
    account,    \* account[r]: account.state of the handle getAccount returned to r
    calls,      \* calls[r]: the provider calls r issued, in order, each with its outcome
    positions,  \* positions[r]: `positions` of close-all-positions
    results,    \* results[r]: `results` of close-all-positions
    sent,       \* sent[r]: the HTTP responses written for r, in order
    heap        \* number of MetaApi objects constructed so far by the process

vars == <<pc, req, client, account, calls, positions, results, sent, heap>>

----------------------------------------------------------------------------
(* Bounds of the model *)

NumReq == 2          \* requests in flight together (ConcSpec, FairSpec)
MaxPos == 3          \* open positions the provider reports (Spec)
MaxDeals == 22       \* deals the provider reports (Spec): more than the default limit
MaxLimit == 3        \* largest small `limit` a caller supplies
NegLimit == 2        \* callers supply limits down to -NegLimit
ConcMaxPos == 1      \* open positions the provider reports under ConcSpec
ConcMaxDeals == 2    \* deals the provider reports under ConcSpec

Req == 1..NumReq
Solo == {1}

----------------------------------------------------------------------------
(* JavaScript values of a request body.  A string is its sequence of       *)
(* characters, so that toUpperCase works on characters.                    *)

Undefined == [t |-> "undefined"]
Str(s) == [t |-> "string", v |-> s]
Num(n) == [t |-> "number", v |-> n]

\* `!x` for the values above
Falsy(x) ==
    \/ x.t = "undefined"
    \/ x.t = "string" /\ x.v = <<>>
    \/ x.t = "number" /\ x.v = 0

UpperChar(c) ==
    CASE c = "b" -> "B" [] c = "u" -> "U" [] c = "y" -> "Y" [] c = "s" -> "S"
      [] c = "e" -> "E" [] c = "l" -> "L" [] c = "h" -> "H" [] c = "o" -> "O"
      [] c = "d" -> "D" [] OTHER -> c

\* String.prototype.toUpperCase
ToUpperCase(s) == [i \in 1..Len(s) |-> UpperChar(s[i])]

Min(a, b) == IF a < b THEN a ELSE b
Max(a, b) == IF a > b THEN a ELSE b

\* Array.prototype.slice(0, end) for an integer end
Slice0(s, end) ==
    LET n == Len(s)
        k == IF end < 0 THEN Max(n + end, 0) ELSE Min(end, n)
    IN  SubSeq(s, 1, k)

Routes == {"accounts", "test-connection", "execute-trade", "get-positions",
           "close-position", "close-all-positions", "get-history"}

EmptyBody ==
    [token |-> Undefined, accountId |-> Undefined, symbol |-> Undefined,
     direction |-> Undefined, volume |-> Undefined, positionId |-> Undefined,
     limit |-> Undefined, startTime |-> Undefined]

----------------------------------------------------------------------------
(* What callers send and what the provider answers: the input sets of the  *)
(* two specifications.  Rich is one request drawn from wide sets; Small is *)
(* what each of several concurrent requests is drawn from.                 *)

Tok == Str(<<"t">>)
Acc == Str(<<"a">>)
Sym == Str(<<"E">>)
Pid == Str(<<"p">>)
Vol == Num(1)

Directions ==
    {Undefined, Num(7),
     Str(<<"b","u","y">>), Str(<<"B","U","Y">>), Str(<<"B","u","Y">>),
     Str(<<"s","e","l","l">>), Str(<<"S","E","L","L">>), Str(<<"s","E","l","L">>),
     Str(<<"h","o","l","d">>)}

\* A position, a deal and an account as the SDK reports them: the fields the
\* handlers copy, abridged to id and symbol/state, and `raw`, which stands for
\* the SDK's other fields.
Position(k) == [id |-> k, symbol |-> "EURUSD", raw |-> "sdk"]
Deal(k) == [id |-> k, symbol |-> "EURUSD", raw |-> "sdk"]
AccountItem(k, st) == [id |-> k, state |-> st, raw |-> "sdk"]

\* Lists without repetition over 1..n, of every length up to n
InjSeqs(n) ==
    UNION {{s \in [1..k -> 1..n] : \A i, j \in 1..k : i # j => s[i] # s[j]} : k \in 0..n}

PositionLists(n) == {[i \in DOMAIN s |-> Position(s[i])] : s \in InjSeqs(n)}

\* Deal lists of every length up to n, in ascending and in descending id order
DealLists(n) ==
    {[i \in 1..k |-> Deal(i)] : k \in 0..n} \cup {[i \in 1..k |-> Deal(k + 1 - i)] : k \in 0..n}

DefaultLimit == 20

Rich ==
    [tok |-> {Undefined, Tok}, acc |-> {Undefined, Acc}, sym |-> {Undefined, Sym},
     dir |-> Directions, vol |-> {Undefined, Vol}, pid |-> {Undefined, Pid},
     lim |-> {Undefined, Num(DefaultLimit + 1)} \cup {Num(n) : n \in (0 - NegLimit)..MaxLimit},
     start |-> {Undefined, Str(<<"2","0","2","4">>)},
     msgs |-> {"", "boom"},
     states |-> {"DEPLOYED", "UNDEPLOYED"},
     posLists |-> PositionLists(MaxPos),
     dealLists |-> DealLists(MaxDeals)]

Small ==
    [tok |-> {Undefined, Tok}, acc |-> {Acc}, sym |-> {Sym},
     dir |-> {Str(<<"b","u","y">>), Str(<<"h","o","l","d">>)}, vol |-> {Vol}, pid |-> {Pid},
     lim |-> {Undefined, Num(1)},
     start |-> {Undefined},
     msgs |-> {"boom"},
     states |-> {"DEPLOYED", "UNDEPLOYED"},
     posLists |-> PositionLists(ConcMaxPos),
     dealLists |-> {[i \in 1..k |-> Deal(k + 1 - i)] : k \in {0, ConcMaxDeals}}]

\* The bodies a caller may post to a route: the fields the route destructures
BodiesOf(route, dom) ==
    CASE route = "accounts" ->
           {[EmptyBody EXCEPT !.token = t] : t \in dom.tok}
      [] route \in {"test-connection", "get-positions", "close-all-positions"} ->
           {[EmptyBody EXCEPT !.token = t, !.accountId = a] : t \in dom.tok, a \in dom.acc}
      [] route = "execute-trade" ->
           {[EmptyBody EXCEPT !.token = t, !.accountId = a, !.symbol = s,
                              !.direction = d, !.volume = v] :
              t \in dom.tok, a \in dom.acc, s \in dom.sym, d \in dom.dir, v \in dom.vol}
      [] route = "close-position" ->
           {[EmptyBody EXCEPT !.token = t, !.accountId = a, !.positionId = p] :
              t \in dom.tok, a \in dom.acc, p \in dom.pid}
      [] route = "get-history" ->
           {[EmptyBody EXCEPT !.token = t, !.accountId = a, !.limit = l, !.startTime = st] :
              t \in dom.tok, a \in dom.acc, l \in dom.lim, st \in dom.start}

\* What a provider call resolves to
ReturnValues(fn, dom) ==
    CASE fn = "getAccountsWithClassicPagination" ->
           {[items |-> <<>>],
            [items |-> <<AccountItem(2, "DEPLOYED"), AccountItem(1, "UNDEPLOYED")>>]}
      [] fn = "getAccount" -> {[state |-> st] : st \in dom.states}
      [] fn = "getAccountInformation" -> {[balance |-> 100, equity |-> 90, currency |-> "USD"]}
      [] fn \in {"createMarketBuyOrder", "createMarketSellOrder"} ->
           {[orderId |-> "o1", positionId |-> "p1"]}
      [] fn = "getPositions" -> dom.posLists
      [] fn = "closePosition" -> {[orderId |-> "o2"]}
      [] fn = "getHistoryDealsByTimeRange" -> dom.dealLists
      [] OTHER -> {"void"}

----------------------------------------------------------------------------
(* The handlers.  A handler's locals are s = [acct, pos, res]; a step of a *)
(* handler yields its locals, the provider calls it issues before it       *)
(* suspends, and the responses it writes.                                  *)

Call(fn, arg) == [fn |-> fn, arg |-> arg]
Go(s, c) == [s |-> s, issue |-> <<c>>, send |-> <<>>]
\* (mutation) the response is written twice
ReplyTwice(s, resp) == [s |-> s, issue |-> <<>>, send |-> <<resp, resp>>]

\* res.json(...), after which the handler returns
Reply(s, resp) == [s |-> s, issue |-> <<>>, send |-> <<resp>>]

\* res.status(400).json({ error })
ValidationError(msg) == [status |-> 400, error |-> msg]

\* res.status(500).json({ success: false, error: error.message || fallback })
ErrorResponse(msg, fallback) ==
    [status |-> 500, success |-> FALSE, error |-> IF msg # "" THEN msg ELSE fallback]

\* (mutation) the state is not looked at: deploy on every request
AlwaysDeploy(state) == TRUE

\* account.state !== 'DEPLOYED'
NotDeployed(state) == state # "DEPLOYED"

\* The `if (account.state !== 'DEPLOYED') { deploy; waitDeployed }` block, entered
\* when getAccount has returned v; then getRPCConnection().connect()
EnsureDeployed(s, v) ==
    IF NotDeployed(v.state)
    THEN Go([s EXCEPT !.acct = v.state], Call("deploy", <<>>))
    ELSE Go([s EXCEPT !.acct = v.state], Call("connect", <<>>))

(* POST /api/metaapi/accounts *)
AccountsInvalid(b) == Falsy(b.token)

CleanAccount(acc) == [id |-> acc.id, state |-> acc.state]

AccountsCont(s, b, c, v) ==
    Reply(s, [status |-> 200, success |-> TRUE,
              accounts |-> [i \in DOMAIN v.items |-> CleanAccount(v.items[i])]])

AccountsCatch(s, c, msg) == Reply(s, ErrorResponse(msg, "Failed to fetch accounts"))

(* POST /api/metaapi/test-connection *)
TestConnectionInvalid(b) == Falsy(b.token) \/ Falsy(b.accountId)

TestConnectionCont(s, b, c, v) ==
    CASE c.fn = "getAccount" -> EnsureDeployed(s, v)
      [] c.fn = "deploy" -> Go(s, Call("waitDeployed", <<>>))
      [] c.fn = "waitDeployed" -> Go(s, Call("connect", <<>>))
      [] c.fn = "connect" -> Go(s, Call("waitSynchronized", <<>>))
      [] c.fn = "waitSynchronized" -> Go(s, Call("getAccountInformation", <<>>))
      [] c.fn = "getAccountInformation" ->
           Reply(s, [status |-> 200, success |-> TRUE, message |-> "Connection successful",
                     balance |-> v.balance, equity |-> v.equity, currency |-> v.currency])

\* (mutation) the failed call is issued again
TestConnectionCatchRetry(s, c, msg) == Go(s, Call(c.fn, c.arg))

TestConnectionCatch(s, c, msg) == Reply(s, ErrorResponse(msg, "Connection test failed"))

(* POST /api/metaapi/execute-trade.  The optional stopLoss and takeProfit  *)
(* are only passed on to the order call and are left out.                  *)
\* (mutation) volume is not checked
ExecuteTradeInvalidNoVolume(b) ==
    Falsy(b.token) \/ Falsy(b.accountId) \/ Falsy(b.symbol) \/ Falsy(b.direction)

ExecuteTradeInvalid(b) ==
    Falsy(b.token) \/ Falsy(b.accountId) \/ Falsy(b.symbol) \/ Falsy(b.direction) \/ Falsy(b.volume)

ExecuteTradeMissing ==
    [status |-> 400, success |-> FALSE,
     error |-> "Missing required fields: token, accountId, symbol, direction, volume"]

\* if (direction.toUpperCase() === 'BUY') ... else if (=== 'SELL') ... else 400;
\* toUpperCase of a value that is no string is a TypeError, caught by the handler
ExecuteTradeDispatch(s, b) ==
    IF b.direction.t # "string"
    THEN Reply(s, ErrorResponse("direction.toUpperCase is not a function", "Trade execution failed"))
    ELSE IF ToUpperCase(b.direction.v) = <<"B", "U", "Y">>
    THEN Go(s, Call("createMarketBuyOrder", [symbol |-> b.symbol.v, volume |-> b.volume.v]))
    ELSE IF ToUpperCase(b.direction.v) = <<"S", "E", "L", "L">>
    THEN Go(s, Call("createMarketSellOrder", [symbol |-> b.symbol.v, volume |-> b.volume.v]))
    ELSE Reply(s, [status |-> 400, success |-> FALSE, error |-> "Direction must be BUY or SELL"])

ExecuteTradeCont(s, b, c, v) ==
    CASE c.fn = "getAccount" -> EnsureDeployed(s, v)
      [] c.fn = "deploy" -> Go(s, Call("waitDeployed", <<>>))
      [] c.fn = "waitDeployed" -> Go(s, Call("connect", <<>>))
      [] c.fn = "connect" -> Go(s, Call("waitSynchronized", <<>>))
      [] c.fn = "waitSynchronized" -> ExecuteTradeDispatch(s, b)
      [] c.fn \in {"createMarketBuyOrder", "createMarketSellOrder"} ->
           Reply(s, [status |-> 200, success |-> TRUE,
                     result |-> [order |-> v.orderId, position |-> v.positionId,
                                 status |-> "executed"]])

ExecuteTradeCatch(s, c, msg) == Reply(s, ErrorResponse(msg, "Trade execution failed"))

(* POST /api/metaapi/get-positions *)
GetPositionsInvalid(b) == Falsy(b.token) \/ Falsy(b.accountId)

PositionProjection(pos) == [id |-> pos.id, symbol |-> pos.symbol]

GetPositionsCont(s, b, c, v) ==
    CASE c.fn = "getAccount" -> EnsureDeployed(s, v)
      [] c.fn = "deploy" -> Go(s, Call("waitDeployed", <<>>))
      [] c.fn = "waitDeployed" -> Go(s, Call("connect", <<>>))
      [] c.fn = "connect" -> Go(s, Call("waitSynchronized", <<>>))
      [] c.fn = "waitSynchronized" -> Go(s, Call("getPositions", <<>>))
      [] c.fn = "getPositions" ->
           Reply(s, [status |-> 200, success |-> TRUE,
                     positions |-> [i \in DOMAIN v |-> PositionProjection(v[i])]])

GetPositionsCatch(s, c, msg) == Reply(s, ErrorResponse(msg, "Failed to fetch positions"))

(* POST /api/metaapi/close-position: no deploy block in this handler *)
ClosePositionInvalid(b) == Falsy(b.token) \/ Falsy(b.accountId) \/ Falsy(b.positionId)

ClosePositionCont(s, b, c, v) ==
    CASE c.fn = "getAccount" -> Go([s EXCEPT !.acct = v.state], Call("connect", <<>>))
      [] c.fn = "connect" -> Go(s, Call("waitSynchronized", <<>>))
      [] c.fn = "waitSynchronized" -> Go(s, Call("closePosition", b.positionId.v))
      [] c.fn = "closePosition" ->
           Reply(s, [status |-> 200, success |-> TRUE,
                     result |-> [orderId |-> v.orderId,
                                 message |-> "Position closed successfully"]])

ClosePositionCatch(s, c, msg) == Reply(s, ErrorResponse(msg, "Failed to close position"))

(* POST /api/metaapi/close-all-positions: no deploy block in this handler *)
CloseAllPositionsInvalid(b) == Falsy(b.token) \/ Falsy(b.accountId)

\* message: `Closed ${results.filter(r => r.success).length} positions`
CloseAllResponse(res) ==
    [status |-> 200, success |-> TRUE,
     message |-> <<"Closed", Cardinality({i \in DOMAIN res : res[i].success}), "positions">>,
     results |-> res]

\* (mutation) every close is issued at once, as Promise.all would
CloseLoopIssueAll(pos, done) ==
    IF done = 0 THEN [k \in DOMAIN pos |-> Call("closePosition", pos[k].id)] ELSE <<>>

\* for (const position of positions) { ... await connection.closePosition(position.id) ... }:
\* with `done` iterations over, the calls the loop issues before it suspends
CloseLoopIssue(pos, done) ==
    IF done < Len(pos) THEN <<Call("closePosition", pos[done + 1].id)>> ELSE <<>>

CloseLoop(s) ==
    IF Len(s.res) < Len(s.pos)
    THEN [s |-> s, issue |-> CloseLoopIssue(s.pos, Len(s.res)), send |-> <<>>]
    ELSE Reply(s, CloseAllResponse(s.res))

\* (mutation) the loop has no try { } catch { } of its own
CloseNoInnerTry(fn) == FALSE

\* the calls the loop's own try { } catch { } encloses
CloseInnerTry(fn) == fn = "closePosition"

CloseAllPositionsCont(s, b, c, v) ==
    CASE c.fn = "getAccount" -> Go([s EXCEPT !.acct = v.state], Call("connect", <<>>))
      [] c.fn = "connect" -> Go(s, Call("waitSynchronized", <<>>))
      [] c.fn = "waitSynchronized" -> Go(s, Call("getPositions", <<>>))
      [] c.fn = "getPositions" -> CloseLoop([s EXCEPT !.pos = v, !.res = <<>>])
      [] c.fn = "closePosition" ->
           CloseLoop([s EXCEPT !.res = Append(@, [positionId |-> c.arg, success |-> TRUE,
                                                   orderId |-> v.orderId])])

CloseAllPositionsCatch(s, c, msg) ==
    IF CloseInnerTry(c.fn)
    THEN CloseLoop([s EXCEPT !.res = Append(@, [positionId |-> c.arg, success |-> FALSE,
                                                 error |-> msg])])
    ELSE Reply(s, ErrorResponse(msg, "Failed to close all positions"))

(* POST /api/metaapi/get-history *)
GetHistoryInvalid(b) == Falsy(b.token) \/ Falsy(b.accountId)

\* (mutation) limit || 20
GetHistoryLimitOr(b) == IF Falsy(b.limit) THEN DefaultLimit ELSE b.limit.v

\* const { ..., limit = 20, ... } = req.body: the default replaces undefined only
GetHistoryLimit(b) == IF b.limit.t = "undefined" THEN DefaultLimit ELSE b.limit.v

\* startTime ? new Date(startTime) : new Date(Date.now() - 30 days), up to new Date()
HistoryRange(b) ==
    [from |-> IF Falsy(b.startTime) THEN [date |-> "now-30d"] ELSE [date |-> b.startTime.v],
     to |-> [date |-> "now"]]

DealProjection(deal) == [id |-> deal.id, symbol |-> deal.symbol]

GetHistoryCont(s, b, c, v) ==
    CASE c.fn = "getAccount" -> EnsureDeployed(s, v)
      [] c.fn = "deploy" -> Go(s, Call("waitDeployed", <<>>))
      [] c.fn = "waitDeployed" -> Go(s, Call("connect", <<>>))
      [] c.fn = "connect" -> Go(s, Call("waitSynchronized", <<>>))
      [] c.fn = "waitSynchronized" -> Go(s, Call("getHistoryDealsByTimeRange", HistoryRange(b)))
      [] c.fn = "getHistoryDealsByTimeRange" ->
           Reply(s, [status |-> 200, success |-> TRUE,
                     deals |-> Slice0([i \in DOMAIN v |-> DealProjection(v[i])],
                                      GetHistoryLimit(b))])

GetHistoryCatch(s, c, msg) == Reply(s, ErrorResponse(msg, "Failed to fetch history"))

----------------------------------------------------------------------------
(* The routes together *)

Invalid(route, b) ==
    CASE route = "accounts" -> AccountsInvalid(b)
      [] route = "test-connection" -> TestConnectionInvalid(b)
      [] route = "execute-trade" -> ExecuteTradeInvalid(b)
      [] route = "get-positions" -> GetPositionsInvalid(b)
      [] route = "close-position" -> ClosePositionInvalid(b)
      [] route = "close-all-positions" -> CloseAllPositionsInvalid(b)
      [] route = "get-history" -> GetHistoryInvalid(b)

\* the 400 response of a route's presence check
Missing(route) ==
    CASE route = "accounts" -> ValidationError("Token is required")
      [] route = "execute-trade" -> ExecuteTradeMissing
      [] route = "close-position" ->
           ValidationError("Token, accountId, and positionId are required")
      [] OTHER -> ValidationError("Token and accountId are required")

\* the first provider call of a handler, on the client it has just constructed
FirstCall(route, b) ==
    IF route = "accounts"
    THEN Call("getAccountsWithClassicPagination", <<>>)
    ELSE Call("getAccount", b.accountId.v)

Cont(route, s, b, c, v) ==
    CASE route = "accounts" -> AccountsCont(s, b, c, v)
      [] route = "test-connection" -> TestConnectionCont(s, b, c, v)
      [] route = "execute-trade" -> ExecuteTradeCont(s, b, c, v)
      [] route = "get-positions" -> GetPositionsCont(s, b, c, v)
      [] route = "close-position" -> ClosePositionCont(s, b, c, v)
      [] route = "close-all-positions" -> CloseAllPositionsCont(s, b, c, v)
      [] route = "get-history" -> GetHistoryCont(s, b, c, v)

Catch(route, s, c, msg) ==
    CASE route = "accounts" -> AccountsCatch(s, c, msg)
      [] route = "test-connection" -> TestConnectionCatch(s, c, msg)
      [] route = "execute-trade" -> ExecuteTradeCatch(s, c, msg)
      [] route = "get-positions" -> GetPositionsCatch(s, c, msg)
      [] route = "close-position" -> ClosePositionCatch(s, c, msg)
      [] route = "close-all-positions" -> CloseAllPositionsCatch(s, c, msg)
      [] route = "get-history" -> GetHistoryCatch(s, c, msg)

\* (mutation) one client, constructed once and kept by the module
SharedMetaApi(h) == 1

\* new MetaApi(token): an object no earlier construction returned
NewMetaApi(h) == h + 1

----------------------------------------------------------------------------
(* State and actions *)

NoRequest == [route |-> "none", body |-> EmptyBody]

Init ==
    /\ pc = [r \in Req |-> "idle"]
    /\ req = [r \in Req |-> NoRequest]
    /\ client = [r \in Req |-> 0]
    /\ account = [r \in Req |-> "none"]
    /\ calls = [r \in Req |-> <<>>]
    /\ positions = [r \in Req |-> <<>>]
    /\ results = [r \in Req |-> <<>>]
    /\ sent = [r \in Req |-> <<>>]
    /\ heap = 0

Locals(r) == [acct |-> account[r], pos |-> positions[r], res |-> results[r]]

\* the provider calls of r that have not settled, and those that never will
Pending(r) == {i \in DOMAIN calls[r] : calls[r][i].out = "pending"}
Hung(r) == {i \in DOMAIN calls[r] : calls[r][i].out = "hung"}

\* a call as r issues it: on the objects of r's own client
Issued(c, cl) == [fn |-> c.fn, arg |-> c.arg, on |-> cl, out |-> "pending", val |-> <<>>]

\* A request arrives at `route` and its handler runs to its first await or its return
Handle(r, route, dom) ==
    /\ pc[r] = "idle"
    /\ \E b \in BodiesOf(route, dom) :
         /\ req' = [req EXCEPT ![r] = [route |-> route, body |-> b]]
         /\ IF Invalid(route, b)
            THEN /\ sent' = [sent EXCEPT ![r] = Append(@, Missing(route))]
                 /\ pc' = [pc EXCEPT ![r] = "done"]
                 /\ UNCHANGED <<client, calls, heap>>
            ELSE /\ client' = [client EXCEPT ![r] = NewMetaApi(heap)]
                 /\ heap' = heap + 1
                 /\ calls' = [calls EXCEPT ![r] = <<Issued(FirstCall(route, b), client'[r])>>]
                 /\ pc' = [pc EXCEPT ![r] = "running"]
                 /\ UNCHANGED sent
    /\ UNCHANGED <<account, positions, results>>

Accounts(r, dom) == pc[r] = "idle" /\ Handle(r, "accounts", dom)
TestConnection(r, dom) == pc[r] = "idle" /\ Handle(r, "test-connection", dom)
ExecuteTrade(r, dom) == pc[r] = "idle" /\ Handle(r, "execute-trade", dom)
GetPositions(r, dom) == pc[r] = "idle" /\ Handle(r, "get-positions", dom)
ClosePosition(r, dom) == pc[r] = "idle" /\ Handle(r, "close-position", dom)
CloseAllPositions(r, dom) == pc[r] = "idle" /\ Handle(r, "close-all-positions", dom)
GetHistory(r, dom) == pc[r] = "idle" /\ Handle(r, "get-history", dom)

\* Call i of r settles with outcome `out` and value `val`, and the handler runs on
\* to its next await or its return, as e says
Advance(r, i, out, val, e) ==
    /\ calls' = [calls EXCEPT ![r] =
                   [@ EXCEPT ![i].out = out, ![i].val = val]
                   \o [k \in DOMAIN e.issue |-> Issued(e.issue[k], client[r])]]
    /\ account' = [account EXCEPT ![r] = e.s.acct]
    /\ positions' = [positions EXCEPT ![r] = e.s.pos]
    /\ results' = [results EXCEPT ![r] = e.s.res]
    /\ sent' = [sent EXCEPT ![r] = @ \o e.send]
    /\ pc' = [pc EXCEPT ![r] = IF e.send # <<>> THEN "done" ELSE "running"]
    /\ UNCHANGED <<req, client, heap>>

\* the awaited promise fulfils
Resolve(r, dom) ==
    /\ pc[r] = "running"
    /\ \E i \in Pending(r) : \E v \in ReturnValues(calls[r][i].fn, dom) :
         Advance(r, i, "returned", v,
                 Cont(req[r].route, Locals(r), req[r].body, calls[r][i], v))

\* the awaited promise rejects with an error whose message is msg
Reject(r, dom) ==
    /\ pc[r] = "running"
    /\ \E i \in Pending(r) : \E msg \in dom.msgs :
         Advance(r, i, "threw", msg, Catch(req[r].route, Locals(r), calls[r][i], msg))

\* the awaited promise turns out never to settle: no timeout, no cancellation
Hang(r) ==
    /\ pc[r] = "running"
    /\ \E i \in Pending(r) :
         calls' = [calls EXCEPT ![r] = [@ EXCEPT ![i].out = "hung"]]
    /\ UNCHANGED <<pc, req, client, account, positions, results, sent, heap>>

Step(r, dom) ==
    \/ Accounts(r, dom)
    \/ TestConnection(r, dom)
    \/ ExecuteTrade(r, dom)
    \/ GetPositions(r, dom)
    \/ ClosePosition(r, dom)
    \/ CloseAllPositions(r, dom)
    \/ GetHistory(r, dom)
    \/ Resolve(r, dom)
    \/ Reject(r, dom)
    \/ Hang(r)

\* one request, inputs from the wide sets
Next == \E r \in Solo : Step(r, Rich)

Spec == Init /\ [][Next]_vars

\* NumReq requests handled concurrently
ConcNext == \E r \in Req : Step(r, Small)

ConcSpec == Init /\ [][ConcNext]_vars

\* ... where every provider call that is going to settle does settle
FairSpec ==
    ConcSpec /\ \A r \in Req : WF_vars(Resolve(r, Small) \/ Reject(r, Small))

----------------------------------------------------------------------------
(* Vocabulary of the properties *)

Started(r) == pc[r] # "idle"
Done(r) == pc[r] = "done"
Route(r) == req[r].route
Body(r) == req[r].body
Count(r, fn) == Cardinality({i \in DOMAIN calls[r] : calls[r][i].fn = fn})
Settled(c) == c.out \in {"returned", "threw"}

\* the required fields of each route, as the interface documents them
RequiredFields(route) ==
    CASE route = "accounts" -> {"token"}
      [] route = "execute-trade" -> {"token", "accountId", "symbol", "direction", "volume"}
      [] route = "close-position" -> {"token", "accountId", "positionId"}
      [] OTHER -> {"token", "accountId"}

MissingField(r) == \E f \in RequiredFields(Route(r)) : Body(r)[f] = Undefined

\* s spells the lower-case word w in some letter case
SpellsAnyCase(s, w) ==
    /\ s.t = "string"
    /\ Len(s.v) = Len(w)
    /\ \A i \in 1..Len(w) : s.v[i] \in {w[i], UpperChar(w[i])}

\* C1: a request that lacks a required field of its route is answered 400, and no
\* client is constructed and no provider call issued for it.
C1_MissingFieldRejected ==
    \A r \in Req :
        Started(r) /\ MissingField(r) =>
            /\ Done(r)
            /\ Len(sent[r]) = 1 /\ sent[r][1].status = 400
            /\ calls[r] = <<>>
            /\ client[r] = 0

C1_Witness ==
    \E r \in Req :
        /\ Route(r) = "execute-trade"
        /\ Body(r).volume = Undefined
        /\ \A f \in {"token", "accountId", "symbol", "direction"} : Body(r)[f] # Undefined
        /\ Done(r) /\ sent[r][1].status = 400

\* C2 as claimed: in execute-trade with every required field present, buy in any
\* letter case gives one buy order and no sell order, sell gives one sell order and
\* no buy order, and any other direction is answered 400 with no provider call
\* issued for the request.
C2_DirectionRouting ==
    \A r \in Req :
        Route(r) = "execute-trade" /\ ~MissingField(r) =>
            LET d == Body(r).direction
                ok == Done(r) /\ sent[r][1].status = 200
            IN  /\ SpellsAnyCase(d, <<"b", "u", "y">>) =>
                     /\ Count(r, "createMarketSellOrder") = 0
                     /\ Count(r, "createMarketBuyOrder") <= 1
                     /\ ok => Count(r, "createMarketBuyOrder") = 1
                /\ SpellsAnyCase(d, <<"s", "e", "l", "l">>) =>
                     /\ Count(r, "createMarketBuyOrder") = 0
                     /\ Count(r, "createMarketSellOrder") <= 1
                     /\ ok => Count(r, "createMarketSellOrder") = 1
                /\ ~SpellsAnyCase(d, <<"b", "u", "y">>) /\ ~SpellsAnyCase(d, <<"s", "e", "l", "l">>) =>
                     /\ calls[r] = <<>>
                     /\ Done(r) => sent[r][1].status = 400

\* the closePosition calls of r, in the order issued
CloseCalls(r) == SelectSeq(calls[r], LAMBDA c : c.fn = "closePosition")

\* the list getPositions returned to r
HasPositions(r) ==
    \E i \in DOMAIN calls[r] : calls[r][i].fn = "getPositions" /\ calls[r][i].out = "returned"
GotPositions(r) ==
    calls[r][CHOOSE i \in DOMAIN calls[r] : calls[r][i].fn = "getPositions"].val

\* C3: in close-all-positions, once getPositions has returned P, the handler's
\* response is a 200 success whose results list has one entry per position of P, in
\* P's order, failed exactly where that position's closePosition threw, with every
\* position's close attempted once and the message counting the successful closes.
C3_CloseAllIsolatesFailures ==
    \A r \in Req :
        Route(r) = "close-all-positions" /\ HasPositions(r) /\ Done(r) =>
            LET P == GotPositions(r)
                cc == CloseCalls(r)
                res == sent[r][1].results
            IN  /\ Len(sent[r]) = 1
                /\ sent[r][1].status = 200 /\ sent[r][1].success = TRUE
                /\ Len(cc) = Len(P)
                /\ \A k \in 1..Len(P) : cc[k].arg = P[k].id /\ Settled(cc[k])
                /\ Len(res) = Len(P)
                /\ \A k \in 1..Len(P) :
                     /\ res[k].positionId = P[k].id
                     /\ res[k].success = (cc[k].out = "returned")
                /\ sent[r][1].message =
                     <<"Closed", Cardinality({k \in 1..Len(P) : cc[k].out = "returned"}),
                       "positions">>

\* positions [A, B, C], B's close fails: flags [true, false, true], "Closed 2 positions"
C3_Witness ==
    \E r \in Req :
        /\ Route(r) = "close-all-positions" /\ Done(r) /\ HasPositions(r)
        /\ Len(GotPositions(r)) = 3
        /\ sent[r][1].status = 200
        /\ [k \in 1..3 |-> sent[r][1].results[k].success] = <<TRUE, FALSE, TRUE>>
        /\ sent[r][1].message = <<"Closed", 2, "positions">>

\* a provider call whose failure the handler's outer catch receives
FailFast(r, i) ==
    /\ calls[r][i].out = "threw"
    /\ ~(Route(r) = "close-all-positions" /\ calls[r][i].fn = "closePosition")

\* the text each route's catch puts in place of an empty error message
FallbackText(route) ==
    CASE route = "accounts" -> "Failed to fetch accounts"
      [] route = "test-connection" -> "Connection test failed"
      [] route = "execute-trade" -> "Trade execution failed"
      [] route = "get-positions" -> "Failed to fetch positions"
      [] route = "close-position" -> "Failed to close position"
      [] route = "close-all-positions" -> "Failed to close all positions"
      [] route = "get-history" -> "Failed to fetch history"

\* C4 as claimed: a provider call that throws (other than a closePosition of
\* close-all-positions) is the last call of its request, and the request is answered
\* 500 with {success: false, error: <the thrown message>}.
C4_ThrowGives500WithMessage ==
    \A r \in Req : \A i \in DOMAIN calls[r] :
        FailFast(r, i) =>
            /\ i = Len(calls[r])
            /\ Done(r)
            /\ sent[r] = <<[status |-> 500, success |-> FALSE, error |-> calls[r][i].val]>>

\* C4 as amended: ... answered 500 with {success: false, error: e}, e the thrown
\* message, or the route's fallback text when the thrown message is empty; the
\* failed call is the request's last call (no retry, no further call).
C4_ThrowGives500 ==
    \A r \in Req : \A i \in DOMAIN calls[r] :
        FailFast(r, i) =>
            /\ i = Len(calls[r])
            /\ Done(r)
            /\ sent[r] = <<[status |-> 500, success |-> FALSE,
                            error |-> IF calls[r][i].val # "" THEN calls[r][i].val
                                      ELSE FallbackText(Route(r))]>>

C4_Witness ==
    \E r \in Req : \E i \in DOMAIN calls[r] :
        /\ FailFast(r, i)
        /\ calls[r][i].fn = "waitDeployed" /\ calls[r][i].val = "boom"
        /\ sent[r][1].status = 500 /\ sent[r][1].error = "boom"

\* the Lifecycle Guard has run and succeeded for r before its call i
GuardPassedBefore(r, i) ==
    \/ account[r] = "DEPLOYED"
    \/ \E j, k \in 1..(i - 1) :
         /\ j < k
         /\ calls[r][j].fn = "deploy" /\ calls[r][j].out = "returned"
         /\ calls[r][k].fn = "waitDeployed" /\ calls[r][k].out = "returned"

\* C5 as claimed: every connect of a request comes after its account was seen
\* DEPLOYED or after its deploy and waitDeployed completed.
C5_ConnectAfterGuard ==
    \A r \in Req : \A i \in DOMAIN calls[r] :
        calls[r][i].fn = "connect" => GuardPassedBefore(r, i)

\* the routes whose handler holds the deploy block
RunsGuard(r) == Route(r) \in {"test-connection", "execute-trade", "get-positions", "get-history"}

Fns(r) == [i \in DOMAIN calls[r] |-> calls[r][i].fn]

\* C6: a request whose account is DEPLOYED never calls deploy or waitDeployed; a
\* request that runs the guard on an account that is not DEPLOYED calls deploy once,
\* then waitDeployed at most once, and connects only after both have returned.
C6_GuardNoOpWhenDeployed ==
    \A r \in Req :
        /\ account[r] = "DEPLOYED" =>
             Count(r, "deploy") = 0 /\ Count(r, "waitDeployed") = 0
        /\ RunsGuard(r) /\ account[r] \notin {"none", "DEPLOYED"} =>
             /\ Count(r, "deploy") = 1 /\ Fns(r)[2] = "deploy"
             /\ Count(r, "waitDeployed") <= 1
             /\ \A i \in DOMAIN calls[r] :
                  /\ calls[r][i].fn = "waitDeployed" => i = 3 /\ calls[r][2].out = "returned"
                  /\ calls[r][i].fn = "connect" =>
                       /\ i = 4 /\ Fns(r)[3] = "waitDeployed"
                       /\ calls[r][3].out = "returned"

C6_Witness ==
    \E r \in Req :
        /\ Route(r) = "execute-trade" /\ account[r] = "UNDEPLOYED"
        /\ Count(r, "connect") = 1
        /\ Count(r, "deploy") = 1 /\ Count(r, "waitDeployed") = 1

\* the deals getHistoryDealsByTimeRange returned to r
HasDeals(r) ==
    \E i \in DOMAIN calls[r] :
        calls[r][i].fn = "getHistoryDealsByTimeRange" /\ calls[r][i].out = "returned"
HistoryCall(r) ==
    calls[r][CHOOSE i \in DOMAIN calls[r] : calls[r][i].fn = "getHistoryDealsByTimeRange"]

\* the first k deals of D as the response lists them
FirstDeals(D, k) == [i \in 1..k |-> [id |-> D[i].id, symbol |-> D[i].symbol]]

\* C7 as claimed: the response holds the first min(20, |D|) deals without a limit
\* and the first min(L, |D|) with limit L, in the provider's order; the provider is
\* asked for the time range only.
C7_HistoryTruncation ==
    \A r \in Req :
        Route(r) = "get-history" /\ HasDeals(r) =>
            LET D == HistoryCall(r).val
                L == Body(r).limit
                k == IF L = Undefined THEN Min(DefaultLimit, Len(D)) ELSE Min(L.v, Len(D))
            IN  /\ DOMAIN HistoryCall(r).arg = {"from", "to"}
                /\ Done(r) /\ Len(sent[r]) = 1
                /\ sent[r][1].deals = FirstDeals(D, Max(k, 0))

\* C7 as amended: ... the first min(L, |D|) deals when L >= 0, and the first
\* max(|D| + L, 0) deals when L < 0 (the end index of slice).
C7_HistoryTruncationSlice ==
    \A r \in Req :
        Route(r) = "get-history" /\ HasDeals(r) =>
            LET D == HistoryCall(r).val
                L == Body(r).limit
                k == IF L = Undefined THEN Min(DefaultLimit, Len(D))
                     ELSE IF L.v >= 0 THEN Min(L.v, Len(D))
                     ELSE Max(Len(D) + L.v, 0)
            IN  /\ DOMAIN HistoryCall(r).arg = {"from", "to"}
                /\ Done(r) /\ Len(sent[r]) = 1
                /\ sent[r][1].status = 200
                /\ sent[r][1].deals = FirstDeals(D, k)

\* more deals than the default limit, no limit supplied, deals not in id order
C7_Witness ==
    \E r \in Req :
        /\ Route(r) = "get-history" /\ HasDeals(r) /\ Done(r)
        /\ Body(r).limit = Undefined
        /\ Len(HistoryCall(r).val) > DefaultLimit
        /\ HistoryCall(r).val[1].id > HistoryCall(r).val[2].id
        /\ Len(sent[r][1].deals) = DefaultLimit

\* what the provider answered to r's calls, without the objects they were made on
Answers(r) ==
    [i \in DOMAIN calls[r] |->
        [fn |-> calls[r][i].fn, arg |-> calls[r][i].arg,
         out |-> calls[r][i].out, val |-> calls[r][i].val]]

\* C8: under every interleaving, each request that passes validation has a client
\* of its own, issues its calls on its own client only, and two requests with the
\* same body whose calls were answered alike have the same responses: a response
\* is a function of the request's body and the answers to its own calls.
C8_NoSharedState ==
    \A r1, r2 \in Req :
        /\ Started(r1) /\ ~Invalid(Route(r1), Body(r1)) => client[r1] # 0
        /\ \A i \in DOMAIN calls[r1] : calls[r1][i].on = client[r1]
        /\ r1 # r2 =>
             /\ client[r1] # 0 /\ client[r2] # 0 => client[r1] # client[r2]
             /\ req[r1] = req[r2] /\ Answers(r1) = Answers(r2) => sent[r1] = sent[r2]

C8_Witness ==
    \E r1, r2 \in Req :
        /\ r1 # r2
        /\ client[r1] # 0 /\ client[r2] # 0
        /\ Done(r1) /\ pc[r2] = "running"
        /\ Route(r1) = "close-all-positions" /\ Route(r2) = "close-all-positions"
        /\ Len(calls[r2]) < Len(calls[r1])

\* C9: in close-all-positions at most one closePosition call is unsettled at any
\* time, the k-th closePosition is for the k-th position of the list getPositions
\* returned and is issued only once the ones before it have settled, and the
\* results are in that order.
C9_ClosesSequential ==
    \A r \in Req :
        Route(r) = "close-all-positions" /\ HasPositions(r) =>
            LET P == GotPositions(r)
                cc == CloseCalls(r)
            IN  /\ Cardinality({k \in DOMAIN cc : ~Settled(cc[k])}) <= 1
                /\ Len(cc) <= Len(P)
                /\ \A k \in DOMAIN cc :
                     /\ cc[k].arg = P[k].id
                     /\ k < Len(cc) => Settled(cc[k])
                /\ Len(results[r]) <= Len(cc)
                /\ \A k \in DOMAIN results[r] : results[r][k].positionId = P[k].id
                /\ Done(r) => sent[r][1].results = results[r] /\ Len(results[r]) = Len(P)

C9_Witness ==
    \E r \in Req :
        /\ Route(r) = "close-all-positions" /\ HasPositions(r)
        /\ Len(GotPositions(r)) = 3
        /\ GotPositions(r)[1].id > GotPositions(r)[2].id
        /\ Len(CloseCalls(r)) = 2
        /\ CloseCalls(r)[1].out = "threw" /\ CloseCalls(r)[2].out = "pending"

\* C10: no request is ever answered twice and a handler that has returned has
\* answered once; a request whose provider calls all settle is eventually answered,
\* whatever happens to the other requests; and a request with a provider call that
\* never settles stays unanswered.
C10_ExactlyOneResponse ==
    /\ [](\A r \in Req : Len(sent[r]) <= 1 /\ (Done(r) <=> Len(sent[r]) = 1))
    /\ \A r \in Req : (pc[r] = "running") ~> (Done(r) \/ Hung(r) # {})
    /\ [][\A r \in Req : Hung(r) # {} => (Hung(r) # {})' /\ sent'[r] = <<>>]_vars

C10_Witness ==
    \E r1, r2 \in Req :
        /\ Hung(r1) # {} /\ sent[r1] = <<>>
        /\ Done(r2) /\ Len(sent[r2]) = 1 /\ Len(calls[r2]) > 1

====
